---------------------------- MODULE Spec2Model ----------------------------
(***************************************************************************)
(* Model of keenbytes/structvalidator.                                     *)
(*                                                                         *)
(*   validator.go : Validate, setValidationFromTags,                       *)
(*                  setValidationFromSuffix, isInt, getFieldTagValues      *)
(*   README.md    : type ValueValidation, ValidateReflectValue,            *)
(*                  NewValueValidation (the second Go file of the package  *)
(*                  is stored after the README text, lines 46-130)         *)
(*                                                                         *)
(* Go strings are modelled as sequences of lexemes: a text value is a      *)
(* sequence of one-character strings, a tag is a sequence of words,        *)
(* digits, ":" and " ", a type or field name is a sequence of its parts    *)
(* ("u","int","8" for uint8, "List","Price" for ListPrice), so that        *)
(* strings.SplitN, HasPrefix, HasSuffix, Replace, strconv.Atoi and the     *)
(* regular-expression matches are computed rather than assumed.            *)
(***************************************************************************)
EXTENDS Integers, Sequences, FiniteSets, TLC

\* ------------------------------------------------------------------ bounds

\* Text values are all strings over Chars of at most MaxTextLen characters.
MaxTextLen == 3
\* Length bounds of a drawn rule range over -1 .. MaxLenBound.
MaxLenBound == 2
\* Numeric bounds of a drawn rule range over -MaxVal .. MaxVal, integer
\* values over -(MaxVal+1) .. MaxVal+1.
MaxVal == 1
\* A drawn tag holds at most MaxTokens space-separated tokens.
MaxTokens == 3
\* Validate walks a struct of at most MaxFields fields.
MaxFields == 2

\* --------------------------------------------------------------- constants

\* validator.go:11-21, the failure flags (1 << iota, iota starting at 1)
FailLenMin == 2
FailLenMax == 4
FailValMin == 8
FailValMax == 16
FailEmpty == 32
FailRegexp == 64
FailEmail == 128
FailZero == 256

\* README.md:64-70, the flags of ValueValidation.Flags
ValMinNotNil == 2
ValMaxNotNil == 4
Required == 8
Email == 16

\* flags & bit > 0, for bit a power of two and flags >= 0
HasBit(flags, bit) ==
    (flags \div bit) % 2 = 1

\* flags | bit, for bit a power of two and flags >= 0
OrBit(flags, bit) ==
    IF HasBit(flags, bit) THEN flags ELSE flags + bit

\* ------------------------------------------------------------ Go strings

\* strings.HasPrefix(s, prefix)
HasPrefix(s, prefix) ==
    /\ Len(s) >= Len(prefix)
    /\ SubSeq(s, 1, Len(prefix)) = prefix

\* strings.HasSuffix(s, suffix)
HasSuffix(s, suffix) ==
    /\ Len(s) >= Len(suffix)
    /\ SubSeq(s, Len(s) - Len(suffix) + 1, Len(s)) = suffix

\* The least index at which sep occurs in s from position from on, 0 if none.
RECURSIVE IndexFrom(_, _, _)
IndexFrom(s, sep, from) ==
    IF from + Len(sep) - 1 > Len(s) THEN 0
    ELSE IF SubSeq(s, from, from + Len(sep) - 1) = sep THEN from
    ELSE IndexFrom(s, sep, from + 1)

\* strings.Replace(s, old, "", 1): the first occurrence of old removed
ReplaceFirst(s, old) ==
    LET i == IndexFrom(s, old, 1)
    IN  IF i = 0 THEN s
        ELSE SubSeq(s, 1, i - 1) \o SubSeq(s, i + Len(old), Len(s))

\* strings.SplitN(s, " ", -1): the pieces between the separators, an empty
\* string giving one empty piece
RECURSIVE SplitN(_)
SplitN(s) ==
    LET i == IndexFrom(s, <<" ">>, 1)
    IN  IF i = 0 THEN <<s>>
        ELSE <<SubSeq(s, 1, i - 1)>> \o SplitN(SubSeq(s, i + 1, Len(s)))

\* strings.Join(pieces, " ")
RECURSIVE Join(_)
Join(pieces) ==
    IF Len(pieces) = 0 THEN <<>>
    ELSE IF Len(pieces) = 1 THEN pieces[1]
    ELSE pieces[1] \o <<" ">> \o Join(Tail(pieces))

\* ------------------------------------------------------------ strconv.Atoi

Digits == <<"0", "1", "2", "3", "4", "5", "6", "7", "8", "9">>

IsDigit(c) ==
    \E d \in 1..Len(Digits) : Digits[d] = c

DigitVal(c) ==
    (CHOOSE d \in 1..Len(Digits) : Digits[d] = c) - 1

RECURSIVE DecimalVal(_, _)
DecimalVal(s, acc) ==
    IF Len(s) = 0 THEN acc
    ELSE DecimalVal(Tail(s), 10 * acc + DigitVal(Head(s)))

\* strconv.Atoi(s): an optional sign followed by one or more decimal digits;
\* anything else is an error (the literals of the model are far from the
\* range of int)
Atoi(s) ==
    LET signed == Len(s) > 0 /\ Head(s) \in {"+", "-"}
        body   == IF signed THEN Tail(s) ELSE s
    IN  IF Len(body) = 0 \/ \E k \in 1..Len(body) : ~IsDigit(body[k])
        THEN [i |-> 0, err |-> TRUE]
        ELSE [i |-> IF signed /\ Head(s) = "-"
                    THEN 0 - DecimalVal(body, 0)
                    ELSE DecimalVal(body, 0),
              err |-> FALSE]

\* ----------------------------------------------------------------- regexp

\* A *regexp.Regexp: nil, or compiled from the pattern text src.
NilRegexp == [set |-> FALSE, src |-> <<>>]

Compiled(src) == [set |-> TRUE, src |-> src]

RECURSIVE Count(_, _)
Count(s, c) ==
    IF Len(s) = 0 THEN 0
    ELSE (IF Head(s) = c THEN 1 ELSE 0) + Count(Tail(s), c)

\* regexp.MustCompile(src) panics on a malformed pattern; of the patterns of
\* the model the malformed ones are those with an unclosed or unopened
\* parenthesis.
CompilePanics(src) ==
    Count(src, "(") # Count(src, ")")

\* re.MatchString(s) for the patterns of the model: literal characters with
\* an optional leading "^" and an optional trailing "$". An unanchored
\* pattern matches anywhere in s.
MatchString(re, s) ==
    LET src     == re.src
        atStart == Len(src) > 0 /\ Head(src) = "^"
        rest    == IF atStart THEN Tail(src) ELSE src
        atEnd   == Len(rest) > 0 /\ rest[Len(rest)] = "$"
        lit     == IF atEnd THEN SubSeq(rest, 1, Len(rest) - 1) ELSE rest
    IN  \E i \in 0..Len(s) :
            /\ i + Len(lit) <= Len(s)
            /\ SubSeq(s, i + 1, i + Len(lit)) = lit
            /\ atStart => i = 0
            /\ atEnd => i + Len(lit) = Len(s)

\* The letters and digits.
Alnum ==
    { "a", "b", "c", "d", "e", "f", "g", "h", "i", "j", "k", "l", "m",
      "n", "o", "p", "q", "r", "s", "t", "u", "v", "w", "x", "y", "z",
      "A", "B", "C", "D", "E", "F", "G", "H", "I", "J", "K", "L", "M",
      "N", "O", "P", "Q", "R", "S", "T", "U", "V", "W", "X", "Y", "Z",
      "0", "1", "2", "3", "4", "5", "6", "7", "8", "9" }

\* The character class of the local part of emailRegex: letters, digits and
\* twenty punctuation characters ("grave" stands for the grave accent, which
\* a TLA+ string cannot hold).
EmailLocal ==
    Alnum \cup { ".", "!", "#", "$", "%", "&", "'", "*", "+", "/", "=",
                 "?", "^", "_", "grave", "{", "|", "}", "~", "-" }

\* The pieces of s between the occurrences of the character sep.
RECURSIVE Split(_, _)
Split(s, sep) ==
    LET i == IndexFrom(s, <<sep>>, 1)
    IN  IF i = 0 THEN <<s>>
        ELSE <<SubSeq(s, 1, i - 1)>> \o Split(SubSeq(s, i + 1, Len(s)), sep)

\* One label of the domain of emailRegex: a letter or digit, then optionally
\* up to 61 letters, digits or hyphens and a closing letter or digit.
EmailLabel(l) ==
    /\ Len(l) >= 1
    /\ Len(l) <= 63
    /\ l[1] \in Alnum
    /\ l[Len(l)] \in Alnum
    /\ \A k \in 1..Len(l) : l[k] \in Alnum \cup {"-"}

\* emailRegex.MatchString(s): the whole of s is a non-empty local part, an
\* at sign and one or more labels separated by dots. Neither character class
\* holds the at sign, so the at sign of a match is the only one of s.
EmailMatch(s) ==
    \E i \in 1..Len(s) :
        /\ s[i] = "@"
        /\ i > 1
        /\ \A k \in 1..(i - 1) : s[k] \in EmailLocal
        /\ LET labels == Split(SubSeq(s, i + 1, Len(s)), ".")
           IN  \A k \in 1..Len(labels) : EmailLabel(labels[k])

\* ---------------------------------------------------------- reflect values

IntKinds == {"Int", "Int8", "Int16", "Int32", "Int64"}

UintKinds == {"Uint", "Uint8", "Uint16", "Uint32", "Uint64"}

\* reflect.Type.Name() of the predeclared type of each kind
TypeName(kind) ==
    CASE kind = "String" -> <<"string">>
      [] kind = "Bool"   -> <<"bool">>
      [] kind = "Int"    -> <<"int">>
      [] kind = "Int8"   -> <<"int", "8">>
      [] kind = "Int16"  -> <<"int", "16">>
      [] kind = "Int32"  -> <<"int", "32">>
      [] kind = "Int64"  -> <<"int", "64">>
      [] kind = "Uint"   -> <<"u", "int">>
      [] kind = "Uint8"  -> <<"u", "int", "8">>
      [] kind = "Uint16" -> <<"u", "int", "16">>
      [] kind = "Uint32" -> <<"u", "int", "32">>
      [] kind = "Uint64" -> <<"u", "int", "64">>

\* A reflect.Value of a predeclared type: str is what String() returns for a
\* string, int what Int() returns for a signed integer, uint what Uint()
\* returns for an unsigned one.
StringValue(s) == [kind |-> "String", str |-> s, int |-> 0, uint |-> 0]

IntValue(kind, n) == [kind |-> kind, str |-> <<>>, int |-> n, uint |-> 0]

UintValue(kind, n) == [kind |-> kind, str |-> <<>>, int |-> 0, uint |-> n]

BoolValue == [kind |-> "Bool", str |-> <<>>, int |-> 0, uint |-> 0]

\* -------------------------------------------------------- ValueValidation

\* NewValueValidation(): LenMin and LenMax -1, every other field zero
NewValueValidation ==
    [LenMin |-> -1, LenMax |-> -1, ValMin |-> 0, ValMax |-> 0,
     Regexp |-> NilRegexp, Flags |-> 0]

\* The result pair (ok, failureFlags) of ValidateReflectValue
Result(ok, failureFlags) == [ok |-> ok, failureFlags |-> failureFlags]

\* RequiredCheck as it would be without the rescue of 0 by a numeric bound:
\* a required integer 0 is always ZERO.
RequiredCheck_NoRescue(v, value) ==
    LET name == TypeName(value.kind)
    IN  IF ~HasBit(v.Flags, Required) THEN 0
        ELSE IF name = <<"string">> /\ value.str = <<>> THEN FailEmpty
        ELSE IF HasPrefix(name, <<"int">>) /\ value.int = 0 THEN FailZero
        ELSE 0

\* ValidateReflectValue, the block under v.Flags&Required: the flag it
\* returns with, 0 when it lets the value through to the later checks.
RequiredCheck(v, value) ==
    LET name         == TypeName(value.kind)
        minCanBeZero == HasBit(v.Flags, ValMinNotNil)
        maxCanBeZero == HasBit(v.Flags, ValMaxNotNil)
    IN  IF ~HasBit(v.Flags, Required) THEN 0
        ELSE IF name = <<"string">> /\ value.str = <<>> THEN FailEmpty
        ELSE IF /\ HasPrefix(name, <<"int">>)
                /\ value.int = 0
                /\ ~minCanBeZero
                /\ ~maxCanBeZero
                /\ v.ValMin = 0
                /\ v.ValMax = 0
        THEN FailZero
        ELSE 0

\* StringCheck as it would be with the length compared by <= : a text of
\* exactly len_min characters is too short.
StringCheck_LenInclusive(v, value) ==
    IF TypeName(value.kind) # <<"string">> THEN 0
    ELSE IF v.LenMin > 0 /\ Len(value.str) <= v.LenMin THEN FailLenMin
    ELSE IF v.LenMax > 0 /\ Len(value.str) > v.LenMax THEN FailLenMax
    ELSE IF v.Regexp.set /\ ~MatchString(v.Regexp, value.str) THEN FailRegexp
    ELSE IF HasBit(v.Flags, Email) /\ ~EmailMatch(value.str) THEN FailEmail
    ELSE 0

\* StringCheck as it would be if an empty text were never checked.
StringCheck_SkipEmpty(v, value) ==
    IF TypeName(value.kind) # <<"string">> \/ value.str = <<>> THEN 0
    ELSE IF v.LenMin > 0 /\ Len(value.str) < v.LenMin THEN FailLenMin
    ELSE IF v.LenMax > 0 /\ Len(value.str) > v.LenMax THEN FailLenMax
    ELSE IF v.Regexp.set /\ ~MatchString(v.Regexp, value.str) THEN FailRegexp
    ELSE IF HasBit(v.Flags, Email) /\ ~EmailMatch(value.str) THEN FailEmail
    ELSE 0

\* StringCheck as it would be with the pattern checked before the lengths.
StringCheck_PatternFirst(v, value) ==
    IF TypeName(value.kind) # <<"string">> THEN 0
    ELSE IF v.Regexp.set /\ ~MatchString(v.Regexp, value.str) THEN FailRegexp
    ELSE IF v.LenMin > 0 /\ Len(value.str) < v.LenMin THEN FailLenMin
    ELSE IF v.LenMax > 0 /\ Len(value.str) > v.LenMax THEN FailLenMax
    ELSE IF HasBit(v.Flags, Email) /\ ~EmailMatch(value.str) THEN FailEmail
    ELSE 0

\* ValidateReflectValue, the block for a value whose type is named "string":
\* the flag of the first check that fails, 0 when none does.
StringCheck(v, value) ==
    IF TypeName(value.kind) # <<"string">> THEN 0
    ELSE IF v.LenMin > 0 /\ Len(value.str) < v.LenMin THEN FailLenMin
    ELSE IF v.LenMax > 0 /\ Len(value.str) > v.LenMax THEN FailLenMax
    ELSE IF v.Regexp.set /\ ~MatchString(v.Regexp, value.str) THEN FailRegexp
    ELSE IF HasBit(v.Flags, Email) /\ ~EmailMatch(value.str) THEN FailEmail
    ELSE 0

\* IntCheck as it would be if it collected the flags of both bounds.
IntCheck_BothFlags(v, value) ==
    LET minCanBeZero == HasBit(v.Flags, ValMinNotNil)
        maxCanBeZero == HasBit(v.Flags, ValMaxNotNil)
        belowMin     == (v.ValMin # 0 \/ minCanBeZero) /\ v.ValMin > value.int
        aboveMax     == (v.ValMax # 0 \/ maxCanBeZero) /\ v.ValMax < value.int
    IN  IF ~HasPrefix(TypeName(value.kind), <<"int">>) THEN 0
        ELSE (IF belowMin THEN FailValMin ELSE 0)
                 + (IF aboveMax THEN FailValMax ELSE 0)

\* ValidateReflectValue, the block for a value whose type name starts with
\* "int": the flag of the first check that fails, 0 when none does.
IntCheck(v, value) ==
    LET minCanBeZero == HasBit(v.Flags, ValMinNotNil)
        maxCanBeZero == HasBit(v.Flags, ValMaxNotNil)
    IN  IF ~HasPrefix(TypeName(value.kind), <<"int">>) THEN 0
        ELSE IF (v.ValMin # 0 \/ minCanBeZero) /\ v.ValMin > value.int
        THEN FailValMin
        ELSE IF (v.ValMax # 0 \/ maxCanBeZero) /\ v.ValMax < value.int
        THEN FailValMax
        ELSE 0

\* ValidateReflectValue as it would be with the text checks run before the
\* required check.
ValidateReflectValue_TextFirst(v, value) ==
    LET required == RequiredCheck(v, value)
        string   == StringCheck(v, value)
        int      == IntCheck(v, value)
    IN  IF string # 0 THEN Result(FALSE, string)
        ELSE IF required # 0 THEN Result(FALSE, required)
        ELSE IF int # 0 THEN Result(FALSE, int)
        ELSE Result(TRUE, 0)

\* (v *ValueValidation) ValidateReflectValue(value): the three blocks in the
\* order of the code, each failing check returning at once with its flag.
ValidateReflectValue(v, value) ==
    LET required == RequiredCheck(v, value)
        string   == StringCheck(v, value)
        int      == IntCheck(v, value)
    IN  IF required # 0 THEN Result(FALSE, required)
        ELSE IF string # 0 THEN Result(FALSE, string)
        ELSE IF int # 0 THEN Result(FALSE, int)
        ELSE Result(TRUE, 0)

\* ------------------------------------------------------------ the parser

\* The state of a parse: the ValueValidation being filled, and whether
\* regexp.MustCompile has panicked (the parse then stops where it is).
Parsing(v, panic) == [v |-> v, panic |-> panic]

\* The option names of the inner loop of setValidationFromTags, in its order.
ValOpts == <<"lenmin", "lenmax", "valmin", "valmax", "regexp">>

\* SetValOpt as it would be with the error of Atoi not looked at: a literal
\* that is not an integer sets the bound to the 0 Atoi returns with it.
SetValOpt_IgnoreErr(st, opt, valOpt) ==
    LET prefix == <<valOpt, ":">>
        val    == ReplaceFirst(opt, prefix)
        n      == Atoi(val)
        v      == st.v
    IN  IF st.panic \/ ~HasPrefix(opt, prefix) THEN st
        ELSE IF valOpt = "regexp"
        THEN IF CompilePanics(val) THEN Parsing(v, TRUE)
             ELSE Parsing([v EXCEPT !.Regexp = Compiled(val)], FALSE)
        ELSE IF valOpt = "lenmin"
        THEN Parsing([v EXCEPT !.LenMin = n.i], FALSE)
        ELSE IF valOpt = "lenmax"
        THEN Parsing([v EXCEPT !.LenMax = n.i], FALSE)
        ELSE IF valOpt = "valmin"
        THEN Parsing([v EXCEPT !.ValMin = n.i,
                               !.Flags = IF n.i = 0
                                         THEN OrBit(v.Flags, ValMinNotNil)
                                         ELSE v.Flags], FALSE)
        ELSE Parsing([v EXCEPT !.ValMax = n.i,
                               !.Flags = IF n.i = 0
                                         THEN OrBit(v.Flags, ValMaxNotNil)
                                         ELSE v.Flags], FALSE)

\* setValidationFromTags, the body of the inner loop for one valOpt: nothing
\* unless opt starts with valOpt and a colon; a regexp option compiles the
\* rest of opt; the others convert it with Atoi and, unless that fails, set
\* their bound, valmin and valmax setting their NotNil flag for a 0.
SetValOpt(st, opt, valOpt) ==
    LET prefix == <<valOpt, ":">>
        val    == ReplaceFirst(opt, prefix)
        n      == Atoi(val)
        v      == st.v
    IN  IF st.panic \/ ~HasPrefix(opt, prefix) THEN st
        ELSE IF valOpt = "regexp"
        THEN IF CompilePanics(val) THEN Parsing(v, TRUE)
             ELSE Parsing([v EXCEPT !.Regexp = Compiled(val)], FALSE)
        ELSE IF n.err THEN st
        ELSE IF valOpt = "lenmin"
        THEN Parsing([v EXCEPT !.LenMin = n.i], FALSE)
        ELSE IF valOpt = "lenmax"
        THEN Parsing([v EXCEPT !.LenMax = n.i], FALSE)
        ELSE IF valOpt = "valmin"
        THEN Parsing([v EXCEPT !.ValMin = n.i,
                               !.Flags = IF n.i = 0
                                         THEN OrBit(v.Flags, ValMinNotNil)
                                         ELSE v.Flags], FALSE)
        ELSE Parsing([v EXCEPT !.ValMax = n.i,
                               !.Flags = IF n.i = 0
                                         THEN OrBit(v.Flags, ValMaxNotNil)
                                         ELSE v.Flags], FALSE)

\* The inner loop over ValOpts from index k on.
RECURSIVE SetValOpts(_, _, _)
SetValOpts(st, opt, k) ==
    IF k > Len(ValOpts) THEN st
    ELSE SetValOpts(SetValOpt(st, opt, ValOpts[k]), opt, k + 1)

\* setValidationFromTags, the body of the outer loop for one opt.
SetOpt(st, opt) ==
    LET v   == st.v
        req == IF opt = <<"req">>
               THEN [v EXCEPT !.Flags = OrBit(v.Flags, Required)]
               ELSE v
        eml == IF opt = <<"email">>
               THEN [req EXCEPT !.Flags = OrBit(req.Flags, Email)]
               ELSE req
    IN  IF st.panic THEN st
        ELSE SetValOpts(Parsing(eml, FALSE), opt, 1)

\* The outer loop over opts.
RECURSIVE SetOpts(_, _)
SetOpts(st, opts) ==
    IF Len(opts) = 0 THEN st
    ELSE SetOpts(SetOpt(st, Head(opts)), Tail(opts))

\* setValidationFromTags, the statement after the loop: a non-empty
\* tagRegexp replaces the pattern.
SetTagRegexp(st, tagRegexp) ==
    IF st.panic \/ tagRegexp = <<>> THEN st
    ELSE IF CompilePanics(tagRegexp) THEN Parsing(st.v, TRUE)
    ELSE Parsing([st.v EXCEPT !.Regexp = Compiled(tagRegexp)], FALSE)

\* setValidationFromTags(v, tag, tagRegexp)
setValidationFromTags(v, tag, tagRegexp) ==
    SetTagRegexp(SetOpts(Parsing(v, FALSE), SplitN(tag)), tagRegexp)

\* setValidationFromSuffix as it would be without the test for bounds that
\* are set: a name ending in Price always gets val_min = 0.
setValidationFromSuffix_Always(v, fieldName) ==
    LET eml == IF HasSuffix(fieldName, <<"Email">>)
               THEN [v EXCEPT !.Flags = OrBit(v.Flags, Email)]
               ELSE v
    IN  IF HasSuffix(fieldName, <<"Price">>)
        THEN [eml EXCEPT !.ValMin = 0,
                         !.Flags = OrBit(eml.Flags, ValMinNotNil)]
        ELSE eml

\* setValidationFromSuffix(v, field), of the field's name
setValidationFromSuffix(v, fieldName) ==
    LET eml == IF HasSuffix(fieldName, <<"Email">>)
               THEN [v EXCEPT !.Flags = OrBit(v.Flags, Email)]
               ELSE v
    IN  IF /\ HasSuffix(fieldName, <<"Price">>)
           /\ eml.ValMin = 0
           /\ eml.ValMax = 0
           /\ ~HasBit(eml.Flags, ValMinNotNil)
           /\ ~HasBit(eml.Flags, ValMaxNotNil)
        THEN [eml EXCEPT !.ValMin = 0,
                         !.Flags = OrBit(eml.Flags, ValMinNotNil)]
        ELSE eml

\* ---------------------------------------------------------------- Validate

\* m[key] of a Go map: the zero value for a key the map does not hold.
MapGet(m, key, zero) == IF key \in DOMAIN m THEN m[key] ELSE zero

\* isInt(k)
isInt(k) ==
    k \in {"Int64", "Int32", "Int16", "Int8", "Int",
           "Uint64", "Uint32", "Uint16", "Uint8", "Uint"}

\* Validate, the choice of tagName
TagName(options) ==
    IF options.OverwriteTagName # <<>> THEN options.OverwriteTagName
    ELSE <<"validation">>

\* getFieldTagValues(field, tagName, overwriteFieldTags): the field's own
\* tags under tagName and tagName_regexp, each replaced by the entry of
\* overwriteFieldTags for the field when there is one.
getFieldTagValues(field, tagName, overwriteFieldTags) ==
    LET regexpName    == tagName \o <<"_regexp">>
        overwriteTags == MapGet(overwriteFieldTags, field.Name, <<>>)
    IN  [tagVal       |-> IF tagName \in DOMAIN overwriteTags
                          THEN overwriteTags[tagName]
                          ELSE MapGet(field.Tag, tagName, <<>>),
         tagRegexpVal |-> IF regexpName \in DOMAIN overwriteTags
                          THEN overwriteTags[regexpName]
                          ELSE MapGet(field.Tag, regexpName, <<>>)]

\* Restricted as it would be if any entry of RestrictFields allowed its field,
\* whatever the entry's value.
Restricted_ByKey(options, fieldName) ==
    /\ Cardinality(DOMAIN options.RestrictFields) > 0
    /\ fieldName \notin DOMAIN options.RestrictFields

\* Validate, the first test of the loop: the field is passed over when
\* RestrictFields is not empty and does not map its name to true.
Restricted(options, fieldName) ==
    /\ Cardinality(DOMAIN options.RestrictFields) > 0
    /\ ~MapGet(options.RestrictFields, fieldName, FALSE)

\* Validate, the second test of the loop: only ints and strings.
KindSkipped(fieldKind) ==
    ~isInt(fieldKind) /\ fieldKind # "String"

\* Validate, the rule of a field: the tags parsed into a new ValueValidation.
ParseField(field, options, overwriteFieldTags) ==
    LET tags == getFieldTagValues(field, TagName(options), overwriteFieldTags)
    IN  setValidationFromTags(NewValueValidation, tags.tagVal,
                              tags.tagRegexpVal)

\* Validate, the suffix step: only when ValidateWhenSuffix is set.
SuffixField(v, field, options) ==
    IF options.ValidateWhenSuffix
    THEN setValidationFromSuffix(v, field.Name)
    ELSE v

\* Validate, the value that is validated: the entry of OverwriteFieldValues
\* for the field when there is one, the field's own value otherwise.
FieldValue(field, overwriteFieldValues) ==
    MapGet(overwriteFieldValues, field.Name, field.Value)

\* Validate, the end of the loop body: a failed field makes valid false and
\* enters invalidFields with its flags.
Collect(acc, fieldName, result) ==
    IF ~result.ok
    THEN [valid         |-> FALSE,
          invalidFields |-> [n \in DOMAIN acc.invalidFields \cup {fieldName} |->
                                IF n = fieldName THEN result.failureFlags
                                ELSE acc.invalidFields[n]]]
    ELSE acc

\* ------------------------------------------------------------------ state

VARIABLES
    pc,             \* where the modelled call stands
    evRule,         \* ValidateReflectValue: the receiver v
    evValue,        \* ValidateReflectValue: the argument value
    evOut,          \* ValidateReflectValue: the returned (ok, failureFlags)
    tag,            \* setValidationFromTags: the argument tag
    tagRegexp,      \* setValidationFromTags: the argument tagRegexp
    optIdx,         \* setValidationFromTags: the opts the loop has done
    parsing,        \* setValidationFromTags: *v so far, and a panic
    options,        \* Validate: the argument options
    valid,          \* Validate: the local valid
    invalidFields,  \* Validate: the local invalidFields
    walked,         \* Validate: the fields s.Field(0..j-1) the loop has done
    cur             \* Validate: the locals of the last turn of the loop

evalVars == <<evRule, evValue, evOut>>

parseVars == <<tag, tagRegexp, optIdx, parsing>>

validateVars == <<options, valid, invalidFields, walked, cur>>

vars == <<pc, evalVars, parseVars, validateVars>>

\* ----------------------------------------------------------- drawn inputs

\* The characters of the drawn text values.
Chars == {"a", "@"}

\* Every string over Chars of at most n characters.
RECURSIVE TextsUpTo(_)
TextsUpTo(n) ==
    IF n = 0 THEN {<<>>}
    ELSE LET shorter == TextsUpTo(n - 1)
         IN  shorter \cup {Append(t, c) : t \in shorter, c \in Chars}

Texts == TextsUpTo(MaxTextLen)

\* The patterns of the drawn rules: none, and one that wants a leading "a".
Patterns == {NilRegexp, Compiled(<<"^", "a">>)}

\* Every combination of ValMinNotNil, ValMaxNotNil, Required and Email.
FlagSets == {2 * k : k \in 0..15}

Rules ==
    [LenMin : -1..MaxLenBound, LenMax : -1..MaxLenBound,
     ValMin : (0 - MaxVal)..MaxVal, ValMax : (0 - MaxVal)..MaxVal,
     Regexp : Patterns, Flags : FlagSets]

Values ==
    {StringValue(t) : t \in Texts}
        \cup {IntValue(k, n) : k \in {"Int", "Int64"},
                               n \in (0 - (MaxVal + 1))..(MaxVal + 1)}
        \cup {UintValue("Uint", n) : n \in 0..(MaxVal + 1)}
        \cup {BoolValue}

NoResult == Result(TRUE, 0)

\* ------------------------------------------- specification of the engine

\* The empty Go map.
EmptyMap == <<>>

\* The locals of the loop of Validate before its first turn.
NoField ==
    [Name |-> <<>>, Kind |-> "Bool", outcome |-> "none",
     tagVal |-> <<>>, tagRegexpVal |-> <<>>,
     parsed |-> NewValueValidation, validation |-> NewValueValidation,
     fieldValue |-> BoolValue, ok |-> TRUE, failureFlags |-> 0]

NoOptions ==
    [isNil |-> TRUE, RestrictFields |-> EmptyMap, OverwriteTagName |-> <<>>,
     ValidateWhenSuffix |-> FALSE]

ValidateIdle ==
    /\ options = NoOptions
    /\ valid = TRUE
    /\ invalidFields = EmptyMap
    /\ walked = EmptyMap
    /\ cur = NoField

EvalIdle ==
    /\ evRule = NewValueValidation
    /\ evValue = BoolValue
    /\ evOut = NoResult

ParseIdle ==
    /\ tag = <<>>
    /\ tagRegexp = <<>>
    /\ optIdx = 0
    /\ parsing = Parsing(NewValueValidation, FALSE)

InitEval ==
    /\ pc = "evaluate"
    /\ evRule \in Rules
    /\ evValue \in Values
    /\ evOut = NoResult
    /\ ParseIdle
    /\ ValidateIdle

\* One call v.ValidateReflectValue(value).
Evaluate ==
    /\ pc = "evaluate"
    /\ evOut' = ValidateReflectValue(evRule, evValue)
    /\ pc' = "evaluated"
    /\ UNCHANGED <<evRule, evValue, parseVars, validateVars>>

NextEval == Evaluate

SpecEval == InitEval /\ [][NextEval]_vars

\* ------------------------------------------- specification of the parser

\* The tokens of the drawn tags: the recognized ones, with literals that are
\* zero, positive, negative, signed and not integers, and unrecognized ones.
Tokens ==
    { <<>>,
      <<"req">>,
      <<"email">>,
      <<"req", ":", "1">>,
      <<"lenmin", ":", "2">>,
      <<"lenmin", ":", "x">>,
      <<"lenmax", ":", "1", "0">>,
      <<"valmin", ":", "0">>,
      <<"valmin", ":", "-", "1">>,
      <<"valmax", ":", "+", "2">>,
      <<"valmax", ":", "-", "0">>,
      <<"regexp", ":", "^", "a">>,
      <<"regexp", ":", "(">> }

\* The drawn tags: one to MaxTokens tokens with a space between them.
Tags ==
    {Join(ts) : ts \in UNION {[1..n -> Tokens] : n \in 1..MaxTokens}}

\* The drawn side-channel patterns: none, a pattern, a malformed pattern.
TagRegexps == {<<>>, <<"a", "$">>, <<")">>}

InitParse ==
    /\ pc = "opts"
    /\ tag \in Tags
    /\ tagRegexp \in TagRegexps
    /\ optIdx = 0
    /\ parsing = Parsing(NewValueValidation, FALSE)
    /\ EvalIdle
    /\ ValidateIdle

\* setValidationFromTags: one turn of the loop over the opts of the tag.
ParseOpt ==
    /\ pc = "opts"
    /\ optIdx < Len(SplitN(tag))
    /\ parsing' = SetOpt(parsing, SplitN(tag)[optIdx + 1])
    /\ optIdx' = optIdx + 1
    /\ pc' = IF parsing'.panic THEN "panic" ELSE "opts"
    /\ UNCHANGED <<tag, tagRegexp, evalVars, validateVars>>

\* setValidationFromTags: the statement after the loop, and the return.
ParseTagRegexp ==
    /\ pc = "opts"
    /\ optIdx = Len(SplitN(tag))
    /\ parsing' = SetTagRegexp(parsing, tagRegexp)
    /\ pc' = IF parsing'.panic THEN "panic" ELSE "parsed"
    /\ UNCHANGED <<tag, tagRegexp, optIdx, evalVars, validateVars>>

NextParse == ParseOpt \/ ParseTagRegexp

SpecParse == InitParse /\ [][NextParse]_vars

\* ----------------------------------------------- specification of Validate

\* The field names of the drawn structs: Name, ListPrice, ContactEmail.
FieldNames == {<<"Name">>, <<"List", "Price">>, <<"Contact", "Email">>}

\* The values of the drawn fields, each of the kind of its field: texts,
\* signed integers, an unsigned integer, and a value of another kind.
StoredValues ==
    { StringValue(<<>>), StringValue(<<"a", "@", "a">>),
      IntValue("Int", -5),
      UintValue("Uint", 0),
      BoolValue }

\* A struct tag: rule text and pattern text under the tag name base.
StructTag(base, tagText, regexpText) ==
    (base :> tagText) @@ ((base \o <<"_regexp">>) :> regexpText)

\* The struct tags of the drawn fields.
StructTags ==
    { StructTag(<<"validation">>, <<>>, <<>>),
      StructTag(<<"validation">>, <<"valmin", ":", "1">>, <<>>),
      StructTag(<<"validation">>, <<"valmin", ":", "0">>, <<>>),
      StructTag(<<"validation">>, <<"req", " ", "lenmin", ":", "2">>,
                <<"^", "a">>),
      StructTag(<<"validation">>, <<"regexp", ":", "(">>, <<>>),
      StructTag(<<"v">>, <<"req">>, <<>>) }

Fields ==
    { [Name |-> n, Kind |-> x.kind, Value |-> x, Tag |-> t] :
          n \in FieldNames, x \in StoredValues, t \in StructTags }

\* What the caller's options can hold for a field: nothing, an entry of
\* OverwriteFieldTags that replaces the rule text under the default tag name,
\* or an entry of OverwriteFieldValues.
Overwrites(fieldName) ==
    { [tags |-> EmptyMap, values |-> EmptyMap],
      [tags   |-> fieldName :> (<<"validation">> :> <<"valmax", ":", "0">>),
       values |-> EmptyMap],
      [tags |-> EmptyMap, values |-> fieldName :> IntValue("Int", 0)] }

\* RestrictFields: empty, or allowing ListPrice and naming Name without
\* allowing it.
RestrictMaps ==
    { EmptyMap,
      (<<"Name">> :> FALSE) @@ (<<"List", "Price">> :> TRUE) }

\* The drawn options: nil; every RestrictFields with the default tag name,
\* suffix inference on or, with no restriction, off; and the tag name "v".
OptionSets ==
    {NoOptions}
        \cup [isNil : {FALSE}, RestrictFields : RestrictMaps,
              OverwriteTagName : {<<>>}, ValidateWhenSuffix : {TRUE}]
        \cup {[isNil |-> FALSE, RestrictFields |-> EmptyMap,
               OverwriteTagName |-> <<>>, ValidateWhenSuffix |-> FALSE],
              [isNil |-> FALSE, RestrictFields |-> EmptyMap,
               OverwriteTagName |-> <<"v">>, ValidateWhenSuffix |-> TRUE]}

\* What the loop keeps of a field it has done: its kind, and the verdict of
\* its rule on its value, whether or not Validate came to ask for it (of a
\* field whose tags do not compile, none).
Walked(field, panic, result) ==
    [Kind |-> field.Kind,
     ok |-> panic \/ result.ok,
     failureFlags |-> IF panic THEN 0 ELSE result.failureFlags]

Init ==
    /\ pc = "start"
    /\ options \in OptionSets
    /\ valid = TRUE
    /\ invalidFields = EmptyMap
    /\ walked = EmptyMap
    /\ cur = NoField
    /\ EvalIdle
    /\ ParseIdle

\* Validate up to the loop: nil options panic.
Start ==
    /\ pc = "start"
    /\ pc' = IF options.isNil THEN "panic" ELSE "fields"
    /\ valid' = TRUE
    /\ invalidFields' = EmptyMap
    /\ UNCHANGED <<options, walked, cur, evalVars, parseVars>>

\* One turn of the loop of Validate, for the next field of the struct. The
\* struct is drawn field by field, with the entries of OverwriteFieldTags and
\* OverwriteFieldValues for the field; field names are unique within a
\* struct, so each entry is read in one turn only.
ValidateField(field, overwriteFieldTags, overwriteFieldValues) ==
    LET tags       == getFieldTagValues(field, TagName(options),
                                        overwriteFieldTags)
        st         == ParseField(field, options, overwriteFieldTags)
        validation == SuffixField(st.v, field, options)
        fieldValue == FieldValue(field, overwriteFieldValues)
        result     == ValidateReflectValue(validation, fieldValue)
        outcome    == IF Restricted(options, field.Name) THEN "restricted"
                      ELSE IF KindSkipped(field.Kind) THEN "skipped"
                      ELSE IF st.panic THEN "panic"
                      ELSE "validated"
        acc        == IF outcome = "validated"
                      THEN Collect([valid |-> valid,
                                    invalidFields |-> invalidFields],
                                   field.Name, result)
                      ELSE [valid |-> valid, invalidFields |-> invalidFields]
    IN  /\ pc = "fields"
        /\ Cardinality(DOMAIN walked) < MaxFields
        /\ field.Name \notin DOMAIN walked
        /\ pc' = IF outcome = "panic" THEN "panic" ELSE "turn"
        /\ valid' = acc.valid
        /\ invalidFields' = acc.invalidFields
        /\ walked' = (field.Name :> Walked(field, st.panic, result)) @@ walked
        /\ cur' = IF outcome = "validated"
                  THEN [Name |-> field.Name, Kind |-> field.Kind,
                        outcome |-> outcome,
                        tagVal |-> tags.tagVal,
                        tagRegexpVal |-> tags.tagRegexpVal,
                        parsed |-> st.v, validation |-> validation,
                        fieldValue |-> fieldValue, ok |-> result.ok,
                        failureFlags |-> result.failureFlags]
                  ELSE [NoField EXCEPT !.Name = field.Name,
                                       !.Kind = field.Kind,
                                       !.outcome = outcome]
        /\ UNCHANGED <<options, evalVars, parseVars>>

\* The loop of Validate takes its next turn, whatever field comes next.
ValidateNextField ==
    /\ pc = "fields"
    /\ \E field \in Fields :
           \E o \in Overwrites(field.Name) :
               ValidateField(field, o.tags, o.values)

\* The loop of Validate goes on to its next turn (j++): the locals of the
\* body are gone.
NextField ==
    /\ pc = "turn"
    /\ pc' = "fields"
    /\ cur' = NoField
    /\ UNCHANGED <<options, valid, invalidFields, walked, evalVars, parseVars>>

\* Validate, after the last field: return valid, invalidFields.
Return ==
    /\ pc = "fields"
    /\ pc' = "returned"
    /\ UNCHANGED <<validateVars, evalVars, parseVars>>

Next ==
    \/ Start
    \/ ValidateNextField
    \/ NextField
    \/ Return

Spec == Init /\ [][Next]_vars

\* ====================================================== claims, the engine

\* The call of SpecEval has returned.
Evaluated == pc = "evaluated"

\* The value is a signed integer (int, int8 .. int64), the integer category
\* of the engine.
IsInteger(value) == value.kind \in IntKinds

IsText(value) == value.kind = "String"

LowerActive(v) == v.ValMin # 0 \/ HasBit(v.Flags, ValMinNotNil)

UpperActive(v) == v.ValMax # 0 \/ HasBit(v.Flags, ValMaxNotNil)

BelowMin(v, value) == LowerActive(v) /\ value.int < v.ValMin

AboveMax(v, value) == UpperActive(v) /\ value.int > v.ValMax

\* C1 as stated: for an integer value, VAL_MIN is reported iff the lower
\* bound is active and the value is below it, and independently VAL_MAX is
\* reported iff the upper bound is active and the value is above it, so that
\* with inverted bounds both flags are returned together.
C1_Original ==
    (Evaluated /\ IsInteger(evValue)) =>
        /\ HasBit(evOut.failureFlags, FailValMin) <=> BelowMin(evRule, evValue)
        /\ HasBit(evOut.failureFlags, FailValMax) <=> AboveMax(evRule, evValue)

\* C1 amended: for an integer value, VAL_MIN is reported iff the lower bound
\* is active and the value is below it; VAL_MAX is reported iff the upper
\* bound is active, the value is above it and VAL_MIN is not reported; the
\* two flags are never returned together (with inverted bounds and
\* val_max < v < val_min the result is VAL_MIN alone).
C1_ValMinBeforeValMax ==
    (Evaluated /\ IsInteger(evValue)) =>
        /\ HasBit(evOut.failureFlags, FailValMin) <=> BelowMin(evRule, evValue)
        /\ HasBit(evOut.failureFlags, FailValMax) <=>
               (AboveMax(evRule, evValue) /\ ~BelowMin(evRule, evValue))
        /\ (BelowMin(evRule, evValue) /\ AboveMax(evRule, evValue)) =>
               evOut = Result(FALSE, FailValMin)

\* C1 witness: inverted bounds with the value strictly between them, and the
\* call returned VAL_MIN.
C1_Witness ==
    /\ Evaluated
    /\ IsInteger(evValue)
    /\ BelowMin(evRule, evValue)
    /\ AboveMax(evRule, evValue)
    /\ evOut.failureFlags = FailValMin

NoBounds(v) ==
    /\ v.ValMin = 0
    /\ v.ValMax = 0
    /\ ~HasBit(v.Flags, ValMinNotNil)
    /\ ~HasBit(v.Flags, ValMaxNotNil)

\* C2: for an integer value and a required rule, the result is ZERO, and
\* nothing else, iff the value is 0 and no numeric bound is set in any way;
\* in every other case the ZERO flag is absent, and a required rule whose
\* only bound is an explicit valmin:0 accepts 0.
C2_RequiredZero ==
    (Evaluated /\ IsInteger(evValue) /\ HasBit(evRule.Flags, Required)) =>
        /\ evOut = Result(FALSE, FailZero) <=>
               (evValue.int = 0 /\ NoBounds(evRule))
        /\ HasBit(evOut.failureFlags, FailZero) => evOut.failureFlags = FailZero
        /\ ( /\ evValue.int = 0
             /\ evRule.ValMin = 0
             /\ evRule.ValMax = 0
             /\ HasBit(evRule.Flags, ValMinNotNil)
             /\ ~HasBit(evRule.Flags, ValMaxNotNil) ) => evOut = Result(TRUE, 0)

\* C2 witness: a required rule without bounds rejected the integer 0.
C2_Witness ==
    /\ Evaluated
    /\ IsInteger(evValue)
    /\ HasBit(evRule.Flags, Required)
    /\ evValue.int = 0
    /\ NoBounds(evRule)
    /\ evOut = Result(FALSE, FailZero)

\* C3: a required rule rejects the empty text with exactly EMPTY, whatever
\* length bounds, pattern or email flag it carries.
C3_RequiredEmpty ==
    ( /\ Evaluated
      /\ IsText(evValue)
      /\ evValue.str = <<>>
      /\ HasBit(evRule.Flags, Required) ) => evOut = Result(FALSE, FailEmpty)

\* C3 witness: the empty text was rejected with EMPTY by a required rule whose
\* minimum length, pattern and email flag would each reject it too.
C3_Witness ==
    /\ Evaluated
    /\ IsText(evValue)
    /\ evValue.str = <<>>
    /\ HasBit(evRule.Flags, Required)
    /\ evRule.LenMin > 0
    /\ evRule.Regexp.set
    /\ HasBit(evRule.Flags, Email)
    /\ evOut.failureFlags = FailEmpty

TooShort(v, value) == v.LenMin > 0 /\ Len(value.str) < v.LenMin

TooLong(v, value) == v.LenMax > 0 /\ Len(value.str) > v.LenMax

RequiredEmpty(v, value) == HasBit(v.Flags, Required) /\ value.str = <<>>

\* C4 as stated: for a text value and len_min <= len_max, LEN_MIN is reported
\* iff len_min > 0 and the text is shorter, LEN_MAX iff len_max > 0 and the
\* text is longer, whatever the pattern, email and required settings.
C4_Original ==
    (Evaluated /\ IsText(evValue) /\ evRule.LenMin <= evRule.LenMax) =>
        /\ HasBit(evOut.failureFlags, FailLenMin) <=> TooShort(evRule, evValue)
        /\ HasBit(evOut.failureFlags, FailLenMax) <=> TooLong(evRule, evValue)

\* C4 amended: for a text value and len_min <= len_max, LEN_MIN is reported
\* iff len_min > 0 and the text is shorter, unless the rule is required and
\* the text empty (then the result is EMPTY alone); LEN_MAX is reported iff
\* len_max > 0 and the text is longer; both whatever the pattern and email
\* settings.
C4_LengthBounds ==
    (Evaluated /\ IsText(evValue) /\ evRule.LenMin <= evRule.LenMax) =>
        /\ HasBit(evOut.failureFlags, FailLenMin) <=>
               (TooShort(evRule, evValue) /\ ~RequiredEmpty(evRule, evValue))
        /\ HasBit(evOut.failureFlags, FailLenMax) <=> TooLong(evRule, evValue)
        /\ RequiredEmpty(evRule, evValue) => evOut.failureFlags = FailEmpty

\* C4 witness: a text longer than len_max, which the pattern and the email
\* flag of the rule would reject as well, was rejected with LEN_MAX.
C4_Witness ==
    /\ Evaluated
    /\ IsText(evValue)
    /\ 0 < evRule.LenMin
    /\ evRule.LenMin <= evRule.LenMax
    /\ TooLong(evRule, evValue)
    /\ evRule.Regexp.set
    /\ ~MatchString(evRule.Regexp, evValue.str)
    /\ HasBit(evRule.Flags, Email)
    /\ evOut = Result(FALSE, FailLenMax)

\* C5 as stated: the empty text never reports LEN_MIN, whether the rule is
\* required or not.
C5_Original ==
    (Evaluated /\ IsText(evValue) /\ evValue.str = <<>>) =>
        ~HasBit(evOut.failureFlags, FailLenMin)

\* C5 amended: under a required rule the empty text never reports LEN_MIN (it
\* is rejected with EMPTY); under a rule that is not required the empty text
\* is checked for its length like any other and reports LEN_MIN iff
\* len_min > 0.
C5_EmptyLenMin ==
    (Evaluated /\ IsText(evValue) /\ evValue.str = <<>>) =>
        /\ HasBit(evOut.failureFlags, FailLenMin) <=>
               (~HasBit(evRule.Flags, Required) /\ evRule.LenMin > 0)
        /\ HasBit(evRule.Flags, Required) => evOut.failureFlags = FailEmpty

\* C5 witness: the empty text under a rule with len_min > 0 that is not
\* required, rejected with LEN_MIN.
C5_Witness ==
    /\ Evaluated
    /\ IsText(evValue)
    /\ evValue.str = <<>>
    /\ ~HasBit(evRule.Flags, Required)
    /\ evRule.LenMin > 0
    /\ evOut = Result(FALSE, FailLenMin)

\* The code the text category yields by the precedence of C10.
TextPrecedence(v, value) ==
    IF TooShort(v, value) THEN FailLenMin
    ELSE IF TooLong(v, value) THEN FailLenMax
    ELSE IF v.Regexp.set /\ ~MatchString(v.Regexp, value.str) THEN FailRegexp
    ELSE IF HasBit(v.Flags, Email) /\ ~EmailMatch(value.str) THEN FailEmail
    ELSE 0

\* C10: a text value that the required check lets through gets at most one
\* code, the first that applies of LEN_MIN, LEN_MAX, PATTERN_MISMATCH and
\* EMAIL_MISMATCH; the numeric bounds add nothing, and ok is true iff the code
\* is 0.
C10_TextPrecedence ==
    (Evaluated /\ IsText(evValue) /\ ~RequiredEmpty(evRule, evValue)) =>
        /\ evOut.failureFlags = TextPrecedence(evRule, evValue)
        /\ evOut.failureFlags \in
               {0, FailLenMin, FailLenMax, FailRegexp, FailEmail}
        /\ evOut.ok <=> evOut.failureFlags = 0

\* C10 witness: a text within its length bounds that fails both the pattern
\* and the email check, under a rule with active numeric bounds, rejected
\* with PATTERN_MISMATCH alone.
C10_Witness ==
    /\ Evaluated
    /\ IsText(evValue)
    /\ evValue.str # <<>>
    /\ ~TooShort(evRule, evValue)
    /\ ~TooLong(evRule, evValue)
    /\ evRule.Regexp.set
    /\ ~MatchString(evRule.Regexp, evValue.str)
    /\ HasBit(evRule.Flags, Email)
    /\ ~EmailMatch(evValue.str)
    /\ evRule.ValMin > 0
    /\ evOut = Result(FALSE, FailRegexp)

\* ====================================================== claims, the parser

\* An integer literal of the rule language: an optional sign and one or more
\* decimal digits.
IsIntegerLiteral(s) ==
    LET body == IF Len(s) > 0 /\ Head(s) \in {"+", "-"} THEN Tail(s) ELSE s
    IN  /\ Len(body) > 0
        /\ \A k \in 1..Len(body) :
               body[k] \in {"0", "1", "2", "3", "4", "5", "6", "7", "8", "9"}

\* opt is the token name:<rest>
IsOption(opt, name) == Len(opt) >= 2 /\ opt[1] = name /\ opt[2] = ":"

OptionRest(opt) == SubSeq(opt, 3, Len(opt))

\* opt is the token name:<int>
IsBound(opt, name) == IsOption(opt, name) /\ IsIntegerLiteral(OptionRest(opt))

\* The tokens of the table of the rule language.
Recognized(opt) ==
    \/ opt = <<"req">>
    \/ opt = <<"email">>
    \/ IsOption(opt, "regexp")
    \/ \E name \in {"lenmin", "lenmax", "valmin", "valmax"} : IsBound(opt, name)

\* opts without the unrecognized tokens and the bound tokens whose suffix is
\* not an integer.
Kept(opts) == SelectSeq(opts, Recognized)

\* The integer of the last token name:<int> of opts, default when there is
\* none.
LastBound(opts, name, default) ==
    LET at == {k \in 1..Len(opts) : IsBound(opts[k], name)}
    IN  IF at = {} THEN default
        ELSE LET last == CHOOSE k \in at : \A j \in at : j <= k
             IN  Atoi(OptionRest(opts[last])).i

\* Some token name:<int> of opts has the integer 0.
HasZeroBound(opts, name) ==
    \E k \in 1..Len(opts) :
        IsBound(opts[k], name) /\ Atoi(OptionRest(opts[k])).i = 0

\* The pattern of the last regexp: token of opts, nil when there is none.
LastPattern(opts) ==
    LET at == {k \in 1..Len(opts) : IsOption(opts[k], "regexp")}
    IN  IF at = {} THEN NilRegexp
        ELSE LET last == CHOOSE k \in at : \A j \in at : j <= k
             IN  Compiled(OptionRest(opts[last]))

\* The flags the tokens of opts set.
TabulatedFlags(opts) ==
    (IF HasZeroBound(opts, "valmin") THEN ValMinNotNil ELSE 0)
        + (IF HasZeroBound(opts, "valmax") THEN ValMaxNotNil ELSE 0)
        + (IF \E k \in 1..Len(opts) : opts[k] = <<"req">> THEN Required ELSE 0)
        + (IF \E k \in 1..Len(opts) : opts[k] = <<"email">> THEN Email ELSE 0)

\* The rule the table of the rule language gives opts and a side-channel
\* pattern.
Tabulated(opts, pattern) ==
    [LenMin |-> LastBound(opts, "lenmin", -1),
     LenMax |-> LastBound(opts, "lenmax", -1),
     ValMin |-> LastBound(opts, "valmin", 0),
     ValMax |-> LastBound(opts, "valmax", 0),
     Regexp |-> IF pattern # <<>> THEN Compiled(pattern) ELSE LastPattern(opts),
     Flags  |-> TabulatedFlags(opts)]

\* C9: unrecognized tokens and bound tokens whose suffix is not an integer
\* change nothing and fail nothing. After every turn of the loop the rule is
\* the one the recognized tokens seen so far produce on their own; the parse
\* ends as the parse of the tag without the other tokens ends, panic included;
\* and a rule that is returned is the tabulated one, the last occurrence of a
\* bound token giving the bound.
C9_UnrecognizedIgnored ==
    LET opts == SplitN(tag)
        kept == setValidationFromTags(NewValueValidation, Join(Kept(opts)),
                                      tagRegexp)
    IN  /\ pc = "opts" =>
               parsing = SetOpts(Parsing(NewValueValidation, FALSE),
                                 Kept(SubSeq(opts, 1, optIdx)))
        /\ pc = "parsed" =>
               /\ parsing = kept
               /\ parsing.v = Tabulated(opts, tagRegexp)
        /\ pc = "panic" => kept.panic

\* C9 witness: a tag was parsed to the end that holds a bound token with a
\* suffix that is not an integer, a valmin:0 and after it a valmin token with
\* another integer, which gave the bound.
C9_Witness ==
    LET opts == SplitN(tag)
    IN  /\ pc = "parsed"
        /\ \E i, j, k \in 1..Len(opts) :
               /\ IsOption(opts[i], "lenmin")
               /\ ~IsBound(opts[i], "lenmin")
               /\ IsBound(opts[j], "valmin")
               /\ Atoi(OptionRest(opts[j])).i = 0
               /\ j < k
               /\ IsBound(opts[k], "valmin")
               /\ Atoi(OptionRest(opts[k])).i # 0
               /\ parsing.v.ValMin = Atoi(OptionRest(opts[k])).i
               /\ HasBit(parsing.v.Flags, ValMinNotNil)

\* ======================================================= claims, Validate

\* The field name is in the scope RestrictFields sets: the allow-list is
\* empty, or lists the name as allowed.
InScope(fieldName) ==
    \/ DOMAIN options.RestrictFields = {}
    \/ /\ fieldName \in DOMAIN options.RestrictFields
       /\ options.RestrictFields[fieldName]

\* The kind is text or an integer kind, signed or unsigned.
TextOrInteger(kind) == kind = "String" \/ kind \in IntKinds \cup UintKinds

\* The fields done so far that are in scope, of text or integer kind, and
\* whose rule rejects their value.
Failed ==
    {n \in DOMAIN walked :
        InScope(n) /\ TextOrInteger(walked[n].Kind) /\ ~walked[n].ok}

\* C6: after every field of the loop, and at the return, valid is true iff
\* invalidFields is empty, and the keys of invalidFields are exactly the
\* fields done so far that are in scope, of text or integer kind and rejected
\* by their rule, each with the failure flags, not 0, of that rejection.
C6_ResultMap ==
    pc \in {"fields", "turn", "returned"} =>
        /\ valid <=> DOMAIN invalidFields = {}
        /\ DOMAIN invalidFields = Failed
        /\ \A n \in Failed :
               /\ invalidFields[n] = walked[n].failureFlags
               /\ invalidFields[n] # 0

\* C6 witness: Validate returned after two fields or more, one of them in the
\* map, another left out of it although its rule rejects its value.
C6_Witness ==
    /\ pc = "returned"
    /\ ~valid
    /\ \E n, m \in DOMAIN walked :
           /\ n \in DOMAIN invalidFields
           /\ m \notin DOMAIN invalidFields
           /\ ~walked[m].ok

\* The number an integer value holds, signed or unsigned.
Number(value) ==
    IF value.kind \in UintKinds THEN value.uint ELSE value.int

\* The value violates the rule: a text by the required or the text checks, an
\* integer, signed or unsigned, by the required-nonzero check or a numeric
\* bound.
Violates(v, value) ==
    IF IsText(value)
    THEN RequiredEmpty(v, value) \/ TextPrecedence(v, value) # 0
    ELSE \/ HasBit(v.Flags, Required) /\ Number(value) = 0 /\ NoBounds(v)
         \/ LowerActive(v) /\ Number(value) < v.ValMin
         \/ UpperActive(v) /\ Number(value) > v.ValMax

\* C7: a field of kind string or of an integer kind that isInt accepts,
\* unsigned ones included, that Validate does not pass over is in the result
\* map iff its value violates its rule.
C7_Original ==
    ( /\ pc = "turn"
      /\ cur.outcome = "validated"
      /\ cur.fieldValue.kind = cur.Kind ) =>
        (cur.Name \in DOMAIN invalidFields
             <=> Violates(cur.validation, cur.fieldValue))

\* C8: the rule that is evaluated is the parsed rule when ValidateWhenSuffix
\* is off; when it is on, the suffix step leaves the length bounds, the
\* pattern, required and the upper bound alone, sets the email flag for a
\* name ending in Email, and for a name ending in Price sets val_min = 0 with
\* its explicit-zero flag exactly when no numeric bound is set in any way,
\* leaving val_min and its flag alone otherwise. ListPrice with empty rule
\* text accepts 0 and rejects -5 with VAL_MIN.
C8_SuffixFillsGaps ==
    (pc = "turn" /\ cur.outcome = "validated") =>
        LET p     == cur.parsed
            v     == cur.validation
            price == HasSuffix(cur.Name, <<"Price">>)
            email == HasSuffix(cur.Name, <<"Email">>)
        IN  /\ p = setValidationFromTags(NewValueValidation, cur.tagVal,
                                         cur.tagRegexpVal).v
            /\ ~options.ValidateWhenSuffix => v = p
            /\ options.ValidateWhenSuffix =>
                   /\ v.LenMin = p.LenMin
                   /\ v.LenMax = p.LenMax
                   /\ v.Regexp = p.Regexp
                   /\ v.ValMax = p.ValMax
                   /\ HasBit(v.Flags, Required) <=> HasBit(p.Flags, Required)
                   /\ HasBit(v.Flags, ValMaxNotNil)
                          <=> HasBit(p.Flags, ValMaxNotNil)
                   /\ HasBit(v.Flags, Email)
                          <=> (HasBit(p.Flags, Email) \/ email)
                   /\ IF price /\ NoBounds(p)
                      THEN v.ValMin = 0 /\ HasBit(v.Flags, ValMinNotNil)
                      ELSE /\ v.ValMin = p.ValMin
                           /\ HasBit(v.Flags, ValMinNotNil)
                                  <=> HasBit(p.Flags, ValMinNotNil)
                   /\ ( /\ cur.Name = <<"List", "Price">>
                        /\ cur.tagVal = <<>>
                        /\ cur.tagRegexpVal = <<>>
                        /\ IsInteger(cur.fieldValue) ) =>
                          /\ cur.fieldValue.int = 0 => cur.ok
                          /\ cur.fieldValue.int = -5 =>
                                 ~cur.ok /\ cur.failureFlags = FailValMin

\* C8 witness: with suffix inference on, the integer field ListPrice with
\* empty rule text and value -5 was rejected with VAL_MIN.
C8_Witness ==
    /\ pc = "turn"
    /\ cur.outcome = "validated"
    /\ options.ValidateWhenSuffix
    /\ cur.Name = <<"List", "Price">>
    /\ cur.tagVal = <<>>
    /\ cur.tagRegexpVal = <<>>
    /\ cur.fieldValue = IntValue("Int", -5)
    /\ cur.parsed = NewValueValidation
    /\ cur.failureFlags = FailValMin
    /\ invalidFields[cur.Name] = FailValMin

=============================================================================
